---- MODULE Spec2Model ----
(***************************************************************************)
(* A model of lenacrypt: the AES single-block engine (aes.py), the         *)
(* Miller-Rabin test (prime.py), the random prime search (rand.py) and     *)
(* RSA key generation, raw encryption and the conversions of key objects   *)
(* to bytes and lists (rsa.py).                                            *)
(*                                                                         *)
(* Bytes are integers 0..255, byte strings are sequences of bytes.  Python *)
(* sequences are 0-indexed, TLA+ sequences 1-indexed: table lookups add 1. *)
(* Every random draw of the code (secrets.randbelow) is a nondeterministic *)
(* choice by the action that makes it.                                     *)
(***************************************************************************)
EXTENDS Integers, Sequences, FiniteSets, TLC

(***************************************************************************)
(* Bounds of the model.                                                    *)
(***************************************************************************)
\* miller_rabin is called directly with p in -1..MaxP
MaxP == 113
\* number of Miller-Rabin rounds asked for: 0..MaxRounds
MaxRounds == 2
\* retry budget of random_prime: 0..MaxRetries
MaxRetries == 2
\* randint draws lie within this offset of either end of the range
MaxSampleOffset == 13
\* randbelow draws of a base lie within this offset of either end of 1..p-1
MaxBaseOffset == 56
\* random_prime is called directly with length -1..MaxPrimeLength
MaxPrimeLength == 8
\* RSAkey.generate is called with length 7..MaxSmallLength, and with BigLength
MaxSmallLength == 11
BigLength == 30
\* messages and ciphertexts handed to RSA lie within this offset of 0 or of n
MaxMsgOffset == 2

\* IsPrime tries the divisors 2..MaxRoot: exact below (MaxRoot + 1)^2
MaxRoot == 181

(***************************************************************************)
(* aes.py: the tables.                                                     *)
(***************************************************************************)
(***************************************************************************)
(* The state: the AES engine of aes.py, the frames of miller_rabin and     *)
(* random_prime (prime.py, rand.py), and the frame of RSAkey.generate with *)
(* the key it returns (rsa.py), a call of gmul or of the MixColumns pair    *)
(* (aes.py), and a key object with its serialized forms (rsa.py).          *)
(***************************************************************************)
VARIABLES
  aes_key,       \* AES.key, <<>> while no engine exists
  key_schedule,  \* AES.key_schedule, <<>> while no engine exists
  aes_pc,        \* "none", "expand", "ready", "encrypt" or "decrypt"
  expanded_key,  \* the list expand_key builds, <<>> outside expand_key
  rcon_i,        \* the round constant index i of expand_key
  state,         \* the 4x4 state of the call in progress
  round_,        \* the loop variable of the call in progress
  aes_op,        \* the method called last: "none", "encrypt" or "decrypt"
  aes_in,        \* the argument of the last call
  aes_out,       \* what the last call returned, <<>> if it has not or raised
  aes_err,       \* the exception the last call raised, "" if none
  enc_plain,     \* the argument of the last encrypt that returned
  enc_cipher,    \* what the last encrypt that returned gave
  aes_raised     \* history: a call of encrypt or decrypt has raised

VARIABLES
  call,  \* the function called from outside: "none", "miller_rabin",
         \* "random_prime" or "generate"
  mr,    \* the frame of miller_rabin
  rp     \* the frame of random_prime

VARIABLES
  gen,  \* the frame of RSAkey.generate; p, q and phi stay readable after
        \* it returned, though the code drops them
  rsa_key,  \* the key object: kind "none", "RSAkey" or "RSApubkey"
  enc,  \* the call of _encrypt or simple_int_encrypt on the key
  dec   \* the call of _decrypt or simple_int_decrypt on the key

VARIABLES
  gf,   \* a call of gmul, or of mix_columns followed by inv_mix_columns
  ser   \* a key object built by its constructor and its conversions

aes_vars ==
  <<aes_key, key_schedule, aes_pc, expanded_key, rcon_i, state, round_,
    aes_op, aes_in, aes_out, aes_err, enc_plain, enc_cipher, aes_raised>>

prime_vars == <<call, mr, rp>>

rsa_vars == <<gen, rsa_key, enc, dec>>

vars ==
  <<aes_key, key_schedule, aes_pc, expanded_key, rcon_i, state, round_,
    aes_op, aes_in, aes_out, aes_err, enc_plain, enc_cipher, aes_raised,
    call, mr, rp, gen, rsa_key, enc, dec, gf, ser>>

SBOX ==
  <<
    99, 124, 119, 123, 242, 107, 111, 197, 48, 1, 103, 43, 254, 215, 171, 118,
    202, 130, 201, 125, 250, 89, 71, 240,
    173, 212, 162, 175, 156, 164, 114, 192,
    183, 253, 147, 38, 54, 63, 247, 204, 52, 165, 229, 241, 113, 216, 49, 21,
    4, 199, 35, 195, 24, 150, 5, 154, 7, 18, 128, 226, 235, 39, 178, 117,
    9, 131, 44, 26, 27, 110, 90, 160, 82, 59, 214, 179, 41, 227, 47, 132,
    83, 209, 0, 237, 32, 252, 177, 91, 106, 203, 190, 57, 74, 76, 88, 207,
    208, 239, 170, 251, 67, 77, 51, 133, 69, 249, 2, 127, 80, 60, 159, 168,
    81, 163, 64, 143, 146, 157, 56, 245, 188, 182, 218, 33, 16, 255, 243, 210,
    205, 12, 19, 236, 95, 151, 68, 23, 196, 167, 126, 61, 100, 93, 25, 115,
    96, 129, 79, 220, 34, 42, 144, 136, 70, 238, 184, 20, 222, 94, 11, 219,
    224, 50, 58, 10, 73, 6, 36, 92, 194, 211, 172, 98, 145, 149, 228, 121,
    231, 200, 55, 109, 141, 213, 78, 169, 108, 86, 244, 234, 101, 122, 174, 8,
    186, 120, 37, 46, 28, 166, 180, 198, 232, 221, 116, 31, 75, 189, 139, 138,
    112, 62, 181, 102, 72, 3, 246, 14, 97, 53, 87, 185, 134, 193, 29, 158,
    225, 248, 152, 17, 105, 217, 142, 148, 155, 30, 135, 233, 206, 85, 40, 223,
    140, 161, 137, 13, 191, 230, 66, 104, 65, 153, 45, 15, 176, 84, 187, 22 >>

RCON ==
  <<
    0, 1, 2, 4, 8, 16, 32, 64, 128, 27, 54, 108, 216, 171, 77, 154,
    47, 94, 188, 99, 198, 151, 53, 106, 212, 179, 125, 250, 239, 197, 145, 57 >>

TestVectorRadioGatun ==
  <<
    73, 32, 226, 153, 165, 32, 82, 97, 100, 105, 111, 71, 97, 116, 117, 110,
    218, 189, 125, 118, 127, 157, 47, 23, 27, 244, 64, 80, 122, 128, 53, 62,
    21, 43, 207, 172, 106, 182, 224, 187, 113, 66, 160, 235, 11, 194, 149, 213,
    52, 1, 204, 135, 94, 183, 44, 60, 47, 245, 140, 215, 36, 55, 25, 2,
    166, 213, 187, 177, 248, 98, 151, 141, 215, 151, 27, 90, 243, 160, 2, 88,
    86, 162, 209, 188, 174, 192, 70, 49, 121, 87, 93, 107, 138, 247, 95, 51,
    30, 109, 18, 194, 176, 173, 84, 243, 201, 250, 9, 152, 67, 13, 86, 171,
    137, 220, 112, 216, 57, 113, 36, 43, 240, 139, 45, 179, 179, 134, 123, 24,
    77, 253, 221, 181, 116, 140, 249, 158, 132, 7, 212, 45, 55, 129, 175, 53,
    90, 132, 75, 47, 46, 8, 178, 177, 170, 15, 102, 156, 157, 142, 201, 169,
    117, 89, 152, 113, 91, 81, 42, 192, 241, 94, 76, 92, 108, 208, 133, 245 >>

TestVector128 ==
  <<
    0, 1, 2, 3, 4, 5, 6, 7, 8, 9, 10, 11, 12, 13, 14, 15,
    214, 170, 116, 253, 210, 175, 114, 250,
    218, 166, 120, 241, 214, 171, 118, 254,
    182, 146, 207, 11, 100, 61, 189, 241, 190, 155, 197, 0, 104, 48, 179, 254,
    182, 255, 116, 78, 210, 194, 201, 191, 108, 89, 12, 191, 4, 105, 191, 65,
    71, 247, 247, 188, 149, 53, 62, 3, 249, 108, 50, 188, 253, 5, 141, 253,
    60, 170, 163, 232, 169, 159, 157, 235, 80, 243, 175, 87, 173, 246, 34, 170,
    94, 57, 15, 125, 247, 166, 146, 150, 167, 85, 61, 193, 10, 163, 31, 107,
    20, 249, 112, 26, 227, 95, 226, 140, 68, 10, 223, 77, 78, 169, 192, 38,
    71, 67, 135, 53, 164, 28, 101, 185, 224, 22, 186, 244, 174, 191, 122, 210,
    84, 153, 50, 209, 240, 133, 87, 104, 16, 147, 237, 156, 190, 44, 151, 78,
    19, 17, 29, 127, 227, 148, 74, 23, 243, 7, 167, 139, 77, 43, 48, 197 >>

TestVector192 ==
  <<
    0, 1, 2, 3, 4, 5, 6, 7, 8, 9, 10, 11, 12, 13, 14, 15,
    16, 17, 18, 19, 20, 21, 22, 23, 88, 70, 242, 249, 92, 67, 244, 254,
    84, 74, 254, 245, 88, 71, 240, 250, 72, 86, 226, 233, 92, 67, 244, 254,
    64, 249, 73, 179, 28, 186, 189, 77, 72, 240, 67, 184, 16, 183, 179, 66,
    88, 225, 81, 171, 4, 162, 165, 85, 126, 255, 181, 65, 98, 69, 8, 12,
    42, 181, 75, 180, 58, 2, 248, 246, 98, 227, 169, 93, 102, 65, 12, 8,
    245, 1, 133, 114, 151, 68, 141, 126, 189, 241, 198, 202, 135, 243, 62, 60,
    229, 16, 151, 97, 131, 81, 155, 105, 52, 21, 124, 158, 163, 81, 241, 224,
    30, 160, 55, 42, 153, 83, 9, 22, 124, 67, 158, 119, 255, 18, 5, 30,
    221, 126, 14, 136, 126, 47, 255, 104, 96, 143, 200, 66, 249, 220, 193, 84,
    133, 159, 95, 35, 122, 141, 90, 61, 192, 192, 41, 82, 190, 239, 214, 58,
    222, 96, 30, 120, 39, 188, 223, 44, 162, 35, 128, 15, 216, 174, 218, 50,
    164, 151, 10, 51, 26, 120, 220, 9, 196, 24, 194, 113, 227, 164, 29, 93 >>

TestVector256 ==
  <<
    0, 1, 2, 3, 4, 5, 6, 7, 8, 9, 10, 11, 12, 13, 14, 15,
    16, 17, 18, 19, 20, 21, 22, 23, 24, 25, 26, 27, 28, 29, 30, 31,
    165, 115, 194, 159, 161, 118, 196, 152,
    169, 127, 206, 147, 165, 114, 192, 156,
    22, 81, 168, 205, 2, 68, 190, 218, 26, 93, 164, 193, 6, 64, 186, 222,
    174, 135, 223, 240, 15, 241, 27, 104, 166, 142, 213, 251, 3, 252, 21, 103,
    109, 225, 241, 72, 111, 165, 79, 146, 117, 248, 235, 83, 115, 184, 81, 141,
    198, 86, 130, 127, 201, 167, 153, 23, 111, 41, 76, 236, 108, 213, 89, 139,
    61, 226, 58, 117, 82, 71, 117, 231, 39, 191, 158, 180, 84, 7, 207, 57,
    11, 220, 144, 95, 194, 123, 9, 72, 173, 82, 69, 164, 193, 135, 28, 47,
    69, 245, 166, 96, 23, 178, 211, 135, 48, 13, 77, 51, 100, 10, 130, 10,
    124, 207, 247, 28, 190, 180, 254, 84, 19, 230, 187, 240, 210, 97, 167, 223,
    240, 26, 250, 254, 231, 168, 41, 121, 215, 165, 100, 74, 179, 175, 230, 64,
    37, 65, 254, 113, 155, 245, 0, 37, 136, 19, 187, 213, 90, 114, 28, 10,
    78, 90, 102, 153, 169, 242, 79, 224, 126, 87, 43, 170, 205, 248, 205, 234,
    36, 252, 121, 204, 191, 9, 121, 233, 55, 26, 194, 60, 109, 104, 222, 54 >>
INV_SBOX == [v \in 0..255 |-> (CHOOSE i \in 1..256 : SBOX[i] = v) - 1]

(***************************************************************************)
(* Python's ^ on non-negative integers of any width.                       *)
(***************************************************************************)
RECURSIVE Xor(_, _)
Xor(a, b) ==
  IF a = 0 THEN b
  ELSE IF b = 0 THEN a
  ELSE (((a % 2) + (b % 2)) % 2) + 2 * Xor(a \div 2, b \div 2)

rotate(word) == SubSeq(word, 2, Len(word)) \o SubSeq(word, 1, 1)

\* the body of gmul's loop, k iterations left; a is shifted without a mask
RECURSIVE gmul_loop(_, _, _, _)
gmul_loop(p, a, b, k) ==
  IF k = 0 THEN p
  ELSE LET p1 == IF b % 2 = 1 THEN Xor(p, a) ELSE p
           hi_bit_set == (a \div 128) % 2 = 1
           a1 == a * 2
           a2 == IF hi_bit_set THEN Xor(a1, 27) ELSE a1
       IN  gmul_loop(p1, a2, b \div 2, k - 1)

\* gmul returning p without the mask 0xff
gmul_unmasked(a, b) == gmul_loop(0, a, b, 8)

gmul(a, b) == gmul_loop(0, a, b, 8) % 256

\* schedule_core without its rotation
schedule_core_unrotated(word, i) ==
  LET w2 == [k \in 1..4 |-> SBOX[word[k] + 1]]
  IN  <<Xor(w2[1], RCON[i + 1])>> \o SubSeq(w2, 2, 4)

schedule_core(word, i) ==
  LET w1 == rotate(word)
      w2 == [k \in 1..4 |-> SBOX[w1[k] + 1]]
  IN  <<Xor(w2[1], RCON[i + 1])>> \o SubSeq(w2, 2, 4)

valid_key_sizes == {16, 24, 32}

num_rounds(key_byte_length) ==
  CASE key_byte_length = 16 -> 10
    [] key_byte_length = 24 -> 12
    [] key_byte_length = 32 -> 14

lengths(key_byte_length) ==
  CASE key_byte_length = 16 -> 176
    [] key_byte_length = 24 -> 208
    [] key_byte_length = 32 -> 240

\* one iteration of the while loop of expand_key, with round constant
\* index i: the list after the four appends
expand_word(expanded, i, key_byte_length) ==
  LET n    == Len(expanded)
      t0   == SubSeq(expanded, n - 3, n)
      t1   == IF n % key_byte_length = 0 THEN schedule_core(t0, i) ELSE t0
      t    == IF key_byte_length = 32 /\ n % key_byte_length = 16
              THEN [k \in 1..4 |-> SBOX[t1[k] + 1]]
              ELSE t1
  IN  expanded \o
        [a \in 1..4 |-> Xor(expanded[n + a - key_byte_length], t[a])]

\* whether the while loop of expand_key runs once more
expand_more(expanded, key_byte_length) ==
  Len(expanded) < (num_rounds(key_byte_length) + 1) * key_byte_length

add_round_key(st, round_key) ==
  [i \in 1..4 |-> [j \in 1..4 |-> Xor(st[i][j], round_key[i][j])]]

sub_bytes(st) == [i \in 1..4 |-> [j \in 1..4 |-> SBOX[st[i][j] + 1]]]

shift_rows(st) ==
  [i \in 1..4 |-> SubSeq(st[i], i, 4) \o SubSeq(st[i], 1, i - 1)]

mix_columns(st) ==
  [j \in 1..4 |-> [i \in 1..4 |->
     CASE j = 1 -> Xor(Xor(gmul(st[1][i], 2), gmul(st[2][i], 3)),
                       Xor(st[3][i], st[4][i]))
       [] j = 2 -> Xor(Xor(st[1][i], gmul(st[2][i], 2)),
                       Xor(gmul(st[3][i], 3), st[4][i]))
       [] j = 3 -> Xor(Xor(st[1][i], st[2][i]),
                       Xor(gmul(st[3][i], 2), gmul(st[4][i], 3)))
       [] j = 4 -> Xor(Xor(gmul(st[1][i], 3), st[2][i]),
                       Xor(st[3][i], gmul(st[4][i], 2)))]]

inv_mix_columns(st) ==
  [j \in 1..4 |-> [i \in 1..4 |->
     CASE j = 1 -> Xor(Xor(gmul(st[1][i], 14), gmul(st[2][i], 11)),
                       Xor(gmul(st[3][i], 13), gmul(st[4][i], 9)))
       [] j = 2 -> Xor(Xor(gmul(st[1][i], 9), gmul(st[2][i], 14)),
                       Xor(gmul(st[3][i], 11), gmul(st[4][i], 13)))
       [] j = 3 -> Xor(Xor(gmul(st[1][i], 13), gmul(st[2][i], 9)),
                       Xor(gmul(st[3][i], 14), gmul(st[4][i], 11)))
       [] j = 4 -> Xor(Xor(gmul(st[1][i], 11), gmul(st[2][i], 13)),
                       Xor(gmul(st[3][i], 9), gmul(st[4][i], 14)))]]

inv_sub_bytes(st) == [i \in 1..4 |-> [j \in 1..4 |-> INV_SBOX[st[i][j]]]]

\* inv_shift_rows rotating the rows the way shift_rows does
inv_shift_rows_leftward(st) ==
  [i \in 1..4 |-> SubSeq(st[i], i, 4) \o SubSeq(st[i], 1, i - 1)]

inv_shift_rows(st) ==
  [i \in 1..4 |-> SubSeq(st[i], 6 - i, 4) \o SubSeq(st[i], 1, 5 - i)]

\* state = [list(block[i:i + 4]) for i in range(0, 16, 4)]
load_state(block) == [i \in 1..4 |-> SubSeq(block, 4 * i - 3, 4 * i)]

\* the two comprehensions that cut key_schedule into round keys
round_keys(schedule) ==
  [r \in 1..(Len(schedule) \div 16) |->
     [i \in 1..4 |-> SubSeq(schedule, 16 * (r - 1) + 4 * i - 3,
                                      16 * (r - 1) + 4 * i)]]

\* bytes([state[i][j] for i in range(4) for j in range(4)])
store_state(st) == st[1] \o st[2] \o st[3] \o st[4]

(***************************************************************************)
(* aes.py: the AES engine.  One engine is constructed, then encrypt and    *)
(* decrypt are called on it; a call in progress is at one of its rounds.   *)
(***************************************************************************)
Key128 == SubSeq(TestVector128, 1, 16)
Key192 == SubSeq(TestVector192, 1, 24)
Key256 == SubSeq(TestVector256, 1, 32)
KeyRadioGatun == SubSeq(TestVectorRadioGatun, 1, 16)
KeyOnes == [i \in 1..32 |-> 1]

\* keys handed to AES(key); the last two have a wrong length
KeyChoices ==
  {Key128, Key192, Key256, KeyRadioGatun, KeyOnes,
   SubSeq(TestVector128, 1, 15), SubSeq(TestVector192, 1, 17)}

BlockZero == [i \in 1..16 |-> 0]
BlockRamp == [i \in 1..16 |-> 17 * (i - 1)]
BlockMixed == SubSeq(TestVector256, 33, 48)

\* blocks handed to encrypt and decrypt; the last two have a wrong length
BlockChoices ==
  {BlockZero, BlockRamp, BlockMixed,
   SubSeq(BlockRamp, 1, 15), BlockRamp \o <<0>>}

AESInit ==
  /\ aes_key = <<>> /\ key_schedule = <<>> /\ aes_pc = "none"
  /\ expanded_key = <<>> /\ rcon_i = 0
  /\ aes_op = "none"
  /\ state = <<>> /\ round_ = 0
  /\ aes_in = <<>> /\ aes_out = <<>> /\ aes_err = ""
  /\ enc_plain = <<>> /\ enc_cipher = <<>>
  /\ aes_raised = FALSE

\* AES.__init__(key) up to the loop of expand_key; key = None draws a
\* 32-byte key, one of the choices
AES_init(key) ==
  /\ UNCHANGED <<prime_vars, rsa_vars, gf, ser>>
  /\ aes_pc = "none"
  /\ aes_err = ""
  /\ IF Len(key) \notin {16, 24, 32}
     THEN /\ aes_err' = "ValueError: Key must be 16, 24, or 32 bytes long."
          /\ UNCHANGED <<aes_key, aes_pc, expanded_key, rcon_i>>
     ELSE /\ aes_key' = key
          /\ expanded_key' = key
          /\ rcon_i' = 1
          /\ aes_pc' = "expand"
          /\ aes_err' = ""
  /\ UNCHANGED <<aes_op, key_schedule, state, round_, aes_in, aes_out,
                 enc_plain, enc_cipher, aes_raised>>

\* one iteration of the while loop of expand_key
expand_key_word ==
  /\ UNCHANGED <<prime_vars, rsa_vars, gf, ser>>
  /\ aes_pc = "expand"
  /\ expand_more(expanded_key, Len(aes_key))
  /\ expanded_key' = expand_word(expanded_key, rcon_i, Len(aes_key))
  /\ rcon_i' = IF Len(expanded_key) % Len(aes_key) = 0
                THEN rcon_i + 1
                ELSE rcon_i
  /\ UNCHANGED <<aes_op, aes_key, key_schedule, aes_pc, state, round_, aes_in,
                 aes_out, aes_err, enc_plain, enc_cipher, aes_raised>>

\* the return of expand_key, and of AES.__init__
expand_key_return ==
  /\ UNCHANGED <<prime_vars, rsa_vars, gf, ser>>
  /\ aes_pc = "expand"
  /\ ~expand_more(expanded_key, Len(aes_key))
  /\ key_schedule' = SubSeq(expanded_key, 1, lengths(Len(aes_key)))
  /\ expanded_key' = <<>>
  /\ rcon_i' = 0
  /\ aes_pc' = "ready"
  /\ UNCHANGED <<aes_op, aes_key, state, round_, aes_in, aes_out, aes_err,
                 enc_plain, enc_cipher, aes_raised>>

\* AES.encrypt cutting or zero-padding its argument to 16 bytes
encrypt_begin_padding(plaintext) ==
  /\ UNCHANGED <<prime_vars, rsa_vars, gf, ser>>
  /\ aes_pc = "ready"
  /\ aes_op' = "encrypt"
  /\ aes_in' = plaintext
  /\ aes_out' = <<>>
  /\ aes_err' = ""
  /\ state' = add_round_key(
                load_state(SubSeq(plaintext \o BlockZero, 1, 16)),
                round_keys(key_schedule)[1])
  /\ round_' = 1
  /\ aes_pc' = "encrypt"
  /\ UNCHANGED <<aes_key, key_schedule, expanded_key, rcon_i, enc_plain,
                 enc_cipher, aes_raised>>

\* AES.encrypt up to the first add_round_key
encrypt_begin(plaintext) ==
  /\ UNCHANGED <<prime_vars, rsa_vars, gf, ser>>
  /\ aes_pc = "ready"
  /\ aes_op' = "encrypt"
  /\ aes_in' = plaintext
  /\ aes_out' = <<>>
  /\ IF Len(plaintext) # 16
     THEN /\ aes_err' = "ValueError: Plaintext must be 16 bytes long."
          /\ aes_raised' = TRUE
          /\ UNCHANGED <<aes_pc, state, round_>>
     ELSE /\ aes_err' = ""
          /\ UNCHANGED aes_raised
          /\ state' = add_round_key(load_state(plaintext),
                                    round_keys(key_schedule)[1])
          /\ round_' = 1
          /\ aes_pc' = "encrypt"
  /\ UNCHANGED <<aes_key, key_schedule, expanded_key, rcon_i, enc_plain,
                 enc_cipher>>

\* one iteration of for round_ in range(1, len(round_keys) - 1)
encrypt_round ==
  /\ UNCHANGED <<prime_vars, rsa_vars, gf, ser>>
  /\ aes_pc = "encrypt"
  /\ round_ < Len(round_keys(key_schedule)) - 1
  /\ state' = add_round_key(mix_columns(shift_rows(sub_bytes(state))),
                            round_keys(key_schedule)[round_ + 1])
  /\ round_' = round_ + 1
  /\ UNCHANGED <<aes_op, aes_key, key_schedule, aes_pc, expanded_key, rcon_i,
                 aes_in, aes_out, aes_err, enc_plain, enc_cipher, aes_raised>>

\* a final round of AES.encrypt that mixes the columns as the others do
encrypt_final_mixing ==
  /\ UNCHANGED <<prime_vars, rsa_vars, gf, ser>>
  /\ aes_pc = "encrypt"
  /\ round_ = Len(round_keys(key_schedule)) - 1
  /\ LET rk  == round_keys(key_schedule)
         out == store_state(add_round_key(
                  mix_columns(shift_rows(sub_bytes(state))), rk[Len(rk)]))
     IN  /\ aes_out' = out
         /\ enc_plain' = aes_in
         /\ enc_cipher' = out
  /\ state' = <<>>
  /\ round_' = 0
  /\ aes_pc' = "ready"
  /\ UNCHANGED <<aes_op, aes_key, key_schedule, expanded_key, rcon_i, aes_in,
                 aes_err, aes_raised>>

\* the final round of AES.encrypt and its return
encrypt_final ==
  /\ UNCHANGED <<prime_vars, rsa_vars, gf, ser>>
  /\ aes_pc = "encrypt"
  /\ round_ = Len(round_keys(key_schedule)) - 1
  /\ LET rk  == round_keys(key_schedule)
         out == store_state(add_round_key(shift_rows(sub_bytes(state)),
                                          rk[Len(rk)]))
     IN  /\ aes_out' = out
         /\ enc_plain' = aes_in
         /\ enc_cipher' = out
  /\ state' = <<>>
  /\ round_' = 0
  /\ aes_pc' = "ready"
  /\ UNCHANGED <<aes_op, aes_key, key_schedule, expanded_key, rcon_i, aes_in,
                 aes_err, aes_raised>>

\* AES.decrypt up to the loop
decrypt_begin(ciphertext) ==
  /\ UNCHANGED <<prime_vars, rsa_vars, gf, ser>>
  /\ aes_pc = "ready"
  /\ aes_op' = "decrypt"
  /\ aes_in' = ciphertext
  /\ aes_out' = <<>>
  /\ IF Len(ciphertext) # 16
     THEN /\ aes_err' = "ValueError: Ciphertext must be 16 bytes long."
          /\ aes_raised' = TRUE
          /\ UNCHANGED <<aes_pc, state, round_>>
     ELSE /\ aes_err' = ""
          /\ UNCHANGED aes_raised
          /\ LET rk == round_keys(key_schedule)
             IN  /\ state' = inv_sub_bytes(inv_shift_rows(
                               add_round_key(load_state(ciphertext),
                                             rk[Len(rk)])))
                 /\ round_' = Len(rk) - 2
          /\ aes_pc' = "decrypt"
  /\ UNCHANGED <<aes_key, key_schedule, expanded_key, rcon_i, enc_plain,
                 enc_cipher>>

\* one iteration of for round_ in range(len(round_keys) - 2, 0, -1)
decrypt_round ==
  /\ UNCHANGED <<prime_vars, rsa_vars, gf, ser>>
  /\ aes_pc = "decrypt"
  /\ round_ > 0
  /\ state' = inv_sub_bytes(inv_shift_rows(inv_mix_columns(
                add_round_key(state, round_keys(key_schedule)[round_ + 1]))))
  /\ round_' = round_ - 1
  /\ UNCHANGED <<aes_op, aes_key, key_schedule, aes_pc, expanded_key, rcon_i,
                 aes_in, aes_out, aes_err, enc_plain, enc_cipher, aes_raised>>

\* the last add_round_key of AES.decrypt and its return
decrypt_final ==
  /\ UNCHANGED <<prime_vars, rsa_vars, gf, ser>>
  /\ aes_pc = "decrypt"
  /\ round_ = 0
  /\ aes_out' = store_state(add_round_key(state,
                                          round_keys(key_schedule)[1]))
  /\ state' = <<>>
  /\ aes_pc' = "ready"
  /\ UNCHANGED <<aes_op, aes_key, key_schedule, expanded_key, rcon_i, round_,
                 aes_in, aes_err, enc_plain, enc_cipher, aes_raised>>

\* the blocks decrypt is called on: the choices and the last ciphertext
DecryptChoices ==
  BlockChoices \cup (IF enc_cipher = <<>> THEN {} ELSE {enc_cipher})

AESNext ==
  \/ \E key \in KeyChoices : AES_init(key)
  \/ expand_key_word
  \/ expand_key_return
  \/ \E plaintext \in BlockChoices : encrypt_begin(plaintext)
  \/ encrypt_round
  \/ encrypt_final
  \/ \E ciphertext \in DecryptChoices : decrypt_begin(ciphertext)
  \/ decrypt_round
  \/ decrypt_final

(***************************************************************************)
(* aes.py: gmul and the MixColumns pair called on their own, once each,    *)
(* with every pair of bytes and with the states below.                     *)
(***************************************************************************)
gf_idle ==
  [op |-> "none", a |-> 0, b |-> 0, p |-> 0,
   st |-> <<>>, mixed |-> <<>>, unmixed |-> <<>>]

\* the bytes handed to gmul
ByteChoices == 0..255

\* the state that is zero except for the byte v in row i, position j
unit_state(i, j, v) ==
  [r \in 1..4 |-> [c \in 1..4 |-> IF r = i /\ c = j THEN v ELSE 0]]

\* the states handed to mix_columns: every state with one non-zero byte,
\* and three dense ones
StateChoices ==
  {unit_state(i, j, v) : i \in 1..4, j \in 1..4, v \in 1..255}
    \cup {load_state(BlockZero), load_state(BlockRamp),
          load_state(BlockMixed)}

\* gmul(a, b) called from outside
Call_gmul(a, b) ==
  /\ gf.op = "none"
  /\ gf' = [gf_idle EXCEPT !.op = "gmul", !.a = a, !.b = b,
                           !.p = gmul(a, b)]
  /\ UNCHANGED <<aes_vars, prime_vars, rsa_vars, ser>>

\* mix_columns(st) called from outside
Call_mix_columns(st) ==
  /\ gf.op = "none"
  /\ gf' = [gf_idle EXCEPT !.op = "mix_columns", !.st = st,
                           !.mixed = mix_columns(st)]
  /\ UNCHANGED <<aes_vars, prime_vars, rsa_vars, ser>>

\* inv_mix_columns called on what mix_columns returned
Call_inv_mix_columns ==
  /\ gf.op = "mix_columns"
  /\ gf' = [gf EXCEPT !.op = "inv_mix_columns",
                      !.unmixed = inv_mix_columns(gf.mixed)]
  /\ UNCHANGED <<aes_vars, prime_vars, rsa_vars, ser>>

\* the inputs of a call that cannot begin are not enumerated
GFNext ==
  \/ gf.op = "none" /\ \E a \in ByteChoices, b \in ByteChoices :
                          Call_gmul(a, b)
  \/ gf.op = "none" /\ \E st \in StateChoices : Call_mix_columns(st)
  \/ Call_inv_mix_columns

(***************************************************************************)
(* Python's integer built-ins, as rsa.py and prime.py use them.  Python    *)
(* integers have no width; the operators below compute the same values     *)
(* without an intermediate result of more than 31 bits, for moduli below   *)
(* 2^30.                                                                   *)
(***************************************************************************)
\* (2 * x) % n, and (2^15 * x) % n by fifteen doublings, for 0 <= x < n
dbl(x, n) == (2 * x) % n
dbl5(x, n) == dbl(dbl(dbl(dbl(dbl(x, n), n), n), n), n)
dbl15(x, n) == dbl5(dbl5(dbl5(x, n), n), n)

\* (a * b) % n for 0 <= a, b < n: at once if the product has no more than
\* 30 bits, else on the 15-bit halves of a and b
mul_halves(a, b, n) ==
  IF n <= 32768 THEN (a * b) % n ELSE
  LET a1  == a \div 32768
      a0  == a % 32768
      b1  == b \div 32768
      b0  == b % 32768
      hi  == dbl15((a1 * b1) % n, n)
      mid == (((hi + ((a1 * b0) % n)) % n) + ((a0 * b1) % n)) % n
  IN  (dbl15(mid, n) + ((a0 * b0) % n)) % n

\* (a * b) % n and (x * x) % n; the set constructors bind the values of the
\* arguments, so that each is computed once
mul_mod(a, b, n) ==
  CHOOSE r \in {mul_halves(x, y, n) : x \in {a}, y \in {b}} : TRUE

sq_mod(x, n) == CHOOSE r \in {mul_halves(y, y, n) : y \in {x}} : TRUE

\* (b ^ k) % n for 0 <= k <= 7 and 0 <= b < n
pow_small(b, k, n) ==
  CASE k = 0 -> 1 % n
    [] k = 1 -> b
    [] k = 2 -> sq_mod(b, n)
    [] k = 3 -> mul_mod(sq_mod(b, n), b, n)
    [] k = 4 -> sq_mod(sq_mod(b, n), n)
    [] k = 5 -> mul_mod(sq_mod(sq_mod(b, n), n), b, n)
    [] k = 6 -> sq_mod(mul_mod(sq_mod(b, n), b, n), n)
    [] k = 7 -> mul_mod(sq_mod(mul_mod(sq_mod(b, n), b, n), n), b, n)

\* pow(base, exp, mod) for exp >= 0 and mod > 0, three bits of exp at a time
RECURSIVE pow_mod(_, _, _)
pow_mod(base, exp, mod) ==
  IF exp = 0 THEN 1 % mod
  ELSE mul_mod(sq_mod(sq_mod(sq_mod(pow_mod(base, exp \div 8, mod), mod),
                             mod), mod),
               pow_small(base % mod, exp % 8, mod), mod)

Abs(x) == IF x < 0 THEN 0 - x ELSE x

\* a gcd that is 1 whatever its arguments: the test on it never fails
gcd_unchecked(a, b) == 1

\* math.gcd
RECURSIVE gcd_loop(_, _)
gcd_loop(a, b) == IF b = 0 THEN a ELSE gcd_loop(b, a % b)

gcd(a, b) == gcd_loop(Abs(a), Abs(b))

\* pow(e, -1, phi) for gcd(e, phi) = 1: the extended Euclidean algorithm on
\* the remainders r0, r1 and the coefficients t0, t1 of e
RECURSIVE inverse_loop(_, _, _, _, _)
inverse_loop(r0, r1, t0, t1, phi) ==
  IF r1 = 0 THEN t0 % phi
  ELSE inverse_loop(r1, r0 % r1, t1, t0 - (r0 \div r1) * t1, phi)

mod_inverse(e, phi) == inverse_loop(phi, e % phi, 0, 1, phi)

(***************************************************************************)
(* rsa.py: the conversions of a key object to and from bytes and lists.    *)
(* A key object is a record of its class and its fields; RSApubkey keeps   *)
(* d = 0.                                                                  *)
(***************************************************************************)
\* int.bit_length of a non-negative integer
RECURSIVE bit_length(_)
bit_length(x) == IF x = 0 THEN 0 ELSE 1 + bit_length(x \div 2)

\* x.to_bytes(length, 'big', signed=False)
int_to_bytes(x, length) ==
  [i \in 1..length |-> (x \div (256 ^ (length - i))) % 256]

\* int.from_bytes(b, 'big', signed=False)
RECURSIVE int_from_bytes(_)
int_from_bytes(b) ==
  IF b = <<>> THEN 0
  ELSE 256 * int_from_bytes(SubSeq(b, 1, Len(b) - 1)) + b[Len(b)]

\* bytes.replace: the occurrences of old, found from the left without
\* overlap, become new
RECURSIVE replace(_, _, _)
replace(b, old, new) ==
  IF Len(b) < Len(old) THEN b
  ELSE IF SubSeq(b, 1, Len(old)) = old
       THEN new \o replace(SubSeq(b, Len(old) + 1, Len(b)), old, new)
       ELSE <<b[1]>> \o replace(Tail(b), old, new)

\* bytes.find, 1-indexed: where sep first occurs in b, 0 if nowhere
find(b, sep) ==
  LET hits == {i \in 1..(Len(b) - Len(sep) + 1) :
                 SubSeq(b, i, i + Len(sep) - 1) = sep}
  IN  IF hits = {} THEN 0 ELSE CHOOSE i \in hits : \A j \in hits : i <= j

\* bytes.split(sep)
RECURSIVE split(_, _)
split(b, sep) ==
  IF find(b, sep) = 0 THEN <<b>>
  ELSE <<SubSeq(b, 1, find(b, sep) - 1)>>
         \o split(SubSeq(b, find(b, sep) + Len(sep), Len(b)), sep)

\* sep.join(parts)
RECURSIVE join(_, _)
join(sep, parts) ==
  IF parts = <<>> THEN <<>>
  ELSE IF Len(parts) = 1 THEN parts[1]
  ELSE parts[1] \o sep \o join(sep, Tail(parts))

\* one field written without the stuffing of its 0x00 bytes
field_to_bytes_unstuffed(x) ==
  int_to_bytes(x, (bit_length(x) + 7) \div 8)

\* one field as to_bytes writes it: no leading zero byte, every 0x00
\* followed by 0x01
field_to_bytes(x) ==
  replace(int_to_bytes(x, (bit_length(x) + 7) \div 8), <<0>>, <<0, 1>>)

\* the list of integers from_bytes reads
bytes_to_fields(b) ==
  LET byte_values == split(b, <<0, 255>>)
  IN  [i \in 1..Len(byte_values) |->
         int_from_bytes(replace(byte_values[i], <<0, 1>>, <<0>>))]

\* RSAkey.__init__ and RSApubkey.__init__
RSAkey_new(n, e, d) == [kind |-> "RSAkey", n |-> n, e |-> e, d |-> d]
RSApubkey_new(n, e) == [kind |-> "RSApubkey", n |-> n, e |-> e, d |-> 0]

\* RSAkey.__eq__, and RSApubkey.__eq__ which overrides it
key_eq(k, other) ==
  IF k.kind = "RSApubkey"
  THEN k.n = other.n /\ k.e = other.e
  ELSE k.n = other.n /\ k.e = other.e /\ k.d = other.d

\* RSAkey.from_list, and RSApubkey.from_list which overrides it
from_list(kind, l) ==
  IF kind = "RSApubkey"
  THEN [ret |-> <<RSApubkey_new(l[1], l[2])>>, err |-> ""]
  ELSE IF Len(l) < 3
       THEN [ret |-> <<>>, err |-> "ValueError: Invalid RSA key list."]
       ELSE [ret |-> <<RSAkey_new(l[1], l[2], l[3])>>, err |-> ""]

\* RSAkey.to_list, and RSApubkey.to_list which overrides it
to_list(k) ==
  IF k.kind = "RSApubkey" THEN <<k.e, k.n>> ELSE <<k.e, k.d, k.n>>

\* RSAkey.to_bytes, and RSApubkey.to_bytes which overrides it
to_bytes(k) ==
  IF k.kind = "RSApubkey"
  THEN join(<<0, 255>>, <<field_to_bytes(k.n), field_to_bytes(k.e)>>)
  ELSE join(<<0, 255>>, <<field_to_bytes(k.n), field_to_bytes(k.e),
                          field_to_bytes(k.d)>>)

\* RSAkey.from_bytes, and RSApubkey.from_bytes which overrides it
from_bytes(kind, b) ==
  IF kind = "RSApubkey"
  THEN IF Len(bytes_to_fields(b)) < 2
       THEN [ret |-> <<>>,
             err |-> "ValueError: Invalid RSA public key bytes."]
       ELSE from_list("RSApubkey", bytes_to_fields(b))
  ELSE IF Len(bytes_to_fields(b)) < 3
       THEN [ret |-> <<>>, err |-> "ValueError: Invalid RSA key bytes."]
       ELSE from_list("RSAkey", bytes_to_fields(b))

ser_idle ==
  [pc |-> "none", obj |-> [kind |-> "none", n |-> 0, e |-> 0, d |-> 0],
   bytes |-> <<>>, list |-> <<>>, back |-> <<>>, err |-> ""]

\* the values of the fields n, e and d: 0, and integers whose bytes are
\* 01, FF, 01 00, 01 01, FF 00, FF 01, 01 00 00, 01 00 01, 01 00 FF,
\* FF 00 FF and 01 00 FF 01
FieldChoices ==
  {0, 1, 255, 256, 257, 65280, 65281, 65536, 65537, 65791, 16711935,
   16842497}

\* RSAkey(n, e, d) called from outside
Call_RSAkey(n, e, d) ==
  /\ ser.pc = "none"
  /\ ser' = [ser EXCEPT !.pc = "built", !.obj = RSAkey_new(n, e, d)]
  /\ UNCHANGED <<aes_vars, prime_vars, rsa_vars, gf>>

\* RSApubkey(n, e) called from outside
Call_RSApubkey(n, e) ==
  /\ ser.pc = "none"
  /\ ser' = [ser EXCEPT !.pc = "built", !.obj = RSApubkey_new(n, e)]
  /\ UNCHANGED <<aes_vars, prime_vars, rsa_vars, gf>>

\* to_bytes called on the object
Call_to_bytes ==
  /\ ser.pc = "built"
  /\ ser' = [ser EXCEPT !.pc = "to_bytes", !.bytes = to_bytes(ser.obj)]
  /\ UNCHANGED <<aes_vars, prime_vars, rsa_vars, gf>>

\* from_bytes of the object's class called on what to_bytes returned
Call_from_bytes ==
  /\ ser.pc = "to_bytes"
  /\ \E r \in {from_bytes(ser.obj.kind, ser.bytes)} :
       ser' = [ser EXCEPT !.pc = "from_bytes", !.back = r.ret,
                          !.err = r.err]
  /\ UNCHANGED <<aes_vars, prime_vars, rsa_vars, gf>>

\* to_list called on the object
Call_to_list ==
  /\ ser.pc = "built"
  /\ ser' = [ser EXCEPT !.pc = "to_list", !.list = to_list(ser.obj)]
  /\ UNCHANGED <<aes_vars, prime_vars, rsa_vars, gf>>

\* from_list of the object's class called on what to_list returned
Call_from_list ==
  /\ ser.pc = "to_list"
  /\ \E r \in {from_list(ser.obj.kind, ser.list)} :
       ser' = [ser EXCEPT !.pc = "from_list", !.back = r.ret,
                          !.err = r.err]
  /\ UNCHANGED <<aes_vars, prime_vars, rsa_vars, gf>>

SerialNext ==
  \/ \E n \in FieldChoices, e \in FieldChoices, d \in FieldChoices :
       Call_RSAkey(n, e, d)
  \/ \E n \in FieldChoices, e \in FieldChoices : Call_RSApubkey(n, e)
  \/ Call_to_bytes
  \/ Call_from_bytes
  \/ Call_to_list
  \/ Call_from_list

(***************************************************************************)
(* prime.py and rand.py.  The frames of miller_rabin and random_prime are  *)
(* records; a frame is idle until its function is called.                  *)
(***************************************************************************)
PRIMES ==
  << 2, 3, 5, 7, 11, 13, 17, 19, 23, 29, 31, 37, 41, 43, 47, 53, 59, 61, 67,
     71, 73, 79, 83, 89, 97 >>

\* what secrets.randbelow(n) may return, n >= 1: within off of 0 or of n - 1
randbelow(n, off) ==
  {x \in {y : y \in 0..off} \cup {n - 1 - y : y \in 0..off} :
     0 <= x /\ x <= n - 1}

\* randint drawing from a range one longer: a <= N <= b + 1
randint_one_more(a, b) == {x + a : x \in randbelow(b - a + 2, MaxSampleOffset)}

\* what randint(a, b) may return
randint(a, b) == {x + a : x \in randbelow(b - a + 1, MaxSampleOffset)}

\* what secrets.randbelow(p - 1) + 1 may return in miller_rabin
random_base(p) == {x + 1 : x \in randbelow(p - 1, MaxBaseOffset)}

mr_idle ==
  [pc |-> "idle", p |-> 0, rounds |-> 0, s |-> 0, d |-> 0, k |-> 0,
   ret |-> "none"]

\* the loop over PRIMES without its test p == n
trial_division_no_match(p) ==
  IF \E i \in 1..Len(PRIMES) : p % PRIMES[i] = 0 THEN "False" ELSE "none"

\* for n in PRIMES: the first n with p == n or p % n == 0 decides, "True" or
\* "False"; "none" when the loop ends without a return
trial_division(p) ==
  LET hits  == {i \in 1..Len(PRIMES) : p = PRIMES[i] \/ p % PRIMES[i] = 0}
      first == CHOOSE i \in hits : \A j \in hits : i <= j
  IN  IF hits = {} THEN "none"
      ELSE IF p = PRIMES[first] THEN "True" ELSE "False"

\* while p_1 & 1 == 0: s += 1; p_1 //= 2  -- gives <<s, p_1>>
RECURSIVE split_even(_, _)
split_even(s, p_1) ==
  IF p_1 % 2 = 0 THEN split_even(s + 1, p_1 \div 2) ELSE <<s, p_1>>

\* miller_rabin(p, rounds) up to its first round: the frame it is left with
miller_rabin_enter(p, rounds) ==
  LET small == IF p < 2 THEN "False" ELSE trial_division(p)
      sd    == split_even(0, p - 1)
  IN  IF small # "none"
      THEN [mr_idle EXCEPT !.pc = "done", !.p = p, !.rounds = rounds,
                           !.ret = small]
      ELSE [pc |-> IF rounds <= 0 THEN "done" ELSE "loop",
            p |-> p, rounds |-> rounds, s |-> sd[1], d |-> sd[2], k |-> 0,
            ret |-> IF rounds <= 0 THEN "True" ELSE "none"]

\* for _ in range(n): x = pow(x, 2, p); if x == p - 1: break -- else: TRUE
RECURSIVE squarings_miss(_, _, _)
squarings_miss(x, n, p) ==
  IF n <= 0 THEN TRUE
  ELSE \E x2 \in {pow_mod(x, 2, p)} :
         x2 # p - 1 /\ squarings_miss(x2, n - 1, p)

\* a round that forgets the test x == p - 1 before the squarings
round_fails_no_minus_one(a, d, s, p) ==
  \E x \in {pow_mod(a, d, p)} :
    /\ x # 1
    /\ squarings_miss(x, s - 1, p)

\* whether the round with base a ends in return False
round_fails(a, d, s, p) ==
  \E x \in {pow_mod(a, d, p)} :
    /\ x # 1
    /\ x # p - 1
    /\ squarings_miss(x, s - 1, p)

\* the frame after one round of miller_rabin with base a
miller_rabin_step(f, a) ==
  IF round_fails(a, f.d, f.s, f.p)
  THEN [f EXCEPT !.pc = "done", !.k = f.k + 1, !.ret = "False"]
  ELSE IF f.k + 1 = f.rounds
  THEN [f EXCEPT !.pc = "done", !.k = f.k + 1, !.ret = "True"]
  ELSE [f EXCEPT !.k = f.k + 1]

rp_idle ==
  [pc |-> "idle", length |-> 0, miller_rounds |-> 0, max_retries |-> 0,
   try_ |-> 0, sample |-> 0, p |-> 0, ret |-> 0, err |-> ""]

\* random_prime checking length < 3
random_prime_enter_from_three(length, miller_rounds, max_retries) ==
  IF length < 3
  THEN [rp_idle EXCEPT !.pc = "raised", !.length = length,
                       !.miller_rounds = miller_rounds,
                       !.max_retries = max_retries,
                       !.err = "ValueError: Length must be at least 4."]
  ELSE [rp_idle EXCEPT !.pc = "loop", !.length = length,
                       !.miller_rounds = miller_rounds,
                       !.max_retries = max_retries]

\* random_prime(length, miller_rounds, max_retries) up to its loop
random_prime_enter(length, miller_rounds, max_retries) ==
  IF length < 4
  THEN [rp_idle EXCEPT !.pc = "raised", !.length = length,
                       !.miller_rounds = miller_rounds,
                       !.max_retries = max_retries,
                       !.err = "ValueError: Length must be at least 4."]
  ELSE [rp_idle EXCEPT !.pc = "loop", !.length = length,
                       !.miller_rounds = miller_rounds,
                       !.max_retries = max_retries]

(***************************************************************************)
(* rsa.py: the frame of RSAkey.generate, the key object, and one call of   *)
(* an encryption method and of a decryption method on it.                  *)
(***************************************************************************)
gen_idle ==
  [pc |-> "idle", length |-> 0, e_arg |-> <<>>, miller_rounds |-> 0,
   max_retries |-> 0, p |-> 0, q |-> 0, n |-> 0, phi |-> 0, e |-> 0,
   err |-> ""]

key_none == [kind |-> "none", n |-> 0, e |-> 0, d |-> 0]

call_idle == [api |-> "", arg |-> 0, ret |-> <<>>, err |-> ""]

\* RSAkey._encrypt
RSAkey_encrypt(k, m) ==
  IF m > k.n
  THEN [ret |-> <<>>, err |-> "ValueError: Message too large for encryption."]
  ELSE [ret |-> <<pow_mod(m, k.e, k.n)>>, err |-> ""]

\* _decrypt raising the private key to the public exponent
RSAkey_decrypt_with_e(k, c) ==
  IF k.kind = "RSApubkey"
  THEN [ret |-> <<>>, err |-> "SyntaxError: Cannot decrypt with a public key."]
  ELSE [ret |-> <<pow_mod(c, k.e, k.n)>>, err |-> ""]

\* _decrypt as RSAkey defines it, RSApubkey not overriding it
RSAkey_decrypt_inherited(k, c) ==
  [ret |-> <<pow_mod(c, k.d, k.n)>>, err |-> ""]

\* RSAkey._decrypt, and RSApubkey._decrypt which overrides it
RSAkey_decrypt(k, c) ==
  IF k.kind = "RSApubkey"
  THEN [ret |-> <<>>, err |-> "SyntaxError: Cannot decrypt with a public key."]
  ELSE [ret |-> <<pow_mod(c, k.d, k.n)>>, err |-> ""]

\* simple_int_encrypt warns, then calls _encrypt
simple_int_encrypt(k, m) == RSAkey_encrypt(k, m)

\* simple_int_decrypt of either class calls self._decrypt
simple_int_decrypt(k, c) == RSAkey_decrypt(k, c)

Init ==
  /\ AESInit
  /\ call = "none"
  /\ mr = mr_idle
  /\ rp = rp_idle
  /\ gen = gen_idle
  /\ rsa_key = key_none
  /\ enc = call_idle
  /\ dec = call_idle
  /\ gf = gf_idle
  /\ ser = ser_idle

(***************************************************************************)
(* prime.py and rand.py: the actions.                                      *)
(***************************************************************************)
\* miller_rabin(p, rounds) called from outside
Call_miller_rabin(p, rounds) ==
  /\ call = "none"
  /\ call' = "miller_rabin"
  /\ mr' = miller_rabin_enter(p, rounds)
  /\ UNCHANGED <<rp, rsa_vars, aes_vars, gf, ser>>

\* one iteration of for _ in range(rounds), with the base it draws
miller_rabin_round ==
  /\ mr.pc = "loop"
  /\ \E a \in random_base(mr.p) : mr' = miller_rabin_step(mr, a)
  /\ UNCHANGED <<call, rp, rsa_vars, aes_vars, gf, ser>>

\* random_prime(length, miller_rounds, max_retries) called from outside
Call_random_prime(length, miller_rounds, max_retries) ==
  /\ call = "none"
  /\ call' = "random_prime"
  /\ rp' = random_prime_enter(length, miller_rounds, max_retries)
  /\ UNCHANGED <<mr, rsa_vars, aes_vars, gf, ser>>

\* the loop of random_prime running for try_ in range(max_retries + 1)
random_prime_try_one_more ==
  /\ rp.pc = "loop"
  /\ rp.try_ <= rp.max_retries
  /\ \E sample \in randint(2 ^ (rp.length - 2), 2 ^ (rp.length - 1) - 1) :
       /\ rp' = [rp EXCEPT !.pc = "test", !.sample = sample,
                           !.p = sample * 2 + 1]
       /\ mr' = miller_rabin_enter(sample * 2 + 1, rp.miller_rounds)
  /\ UNCHANGED <<call, rsa_vars, aes_vars, gf, ser>>

\* one iteration of for try_ in range(max_retries), up to the call of
\* miller_rabin
random_prime_try ==
  /\ rp.pc = "loop"
  /\ rp.try_ < rp.max_retries
  /\ \E sample \in randint(2 ^ (rp.length - 2), 2 ^ (rp.length - 1) - 1) :
       /\ rp' = [rp EXCEPT !.pc = "test", !.sample = sample,
                           !.p = sample * 2 + 1]
       /\ mr' = miller_rabin_enter(sample * 2 + 1, rp.miller_rounds)
  /\ UNCHANGED <<call, rsa_vars, aes_vars, gf, ser>>

\* if miller_rabin(p, miller_rounds): return p -- else the next iteration;
\* the frame of the test that accepted p is kept until the caller takes p
random_prime_tested ==
  /\ rp.pc = "test"
  /\ mr.pc = "done"
  /\ IF mr.ret = "True"
     THEN /\ rp' = [rp EXCEPT !.pc = "done", !.ret = rp.p]
          /\ UNCHANGED mr
     ELSE /\ rp' = [rp EXCEPT !.pc = "loop", !.try_ = rp.try_ + 1]
          /\ mr' = mr_idle
  /\ UNCHANGED <<call, rsa_vars, aes_vars, gf, ser>>

\* the loop ran max_retries times: raise ValueError
random_prime_exhausted ==
  /\ rp.pc = "loop"
  /\ rp.try_ >= rp.max_retries
  /\ rp' =
       [rp EXCEPT
          !.pc = "raised",
          !.err =
            "ValueError: Could not find a random prime within the retry limit."]
  /\ UNCHANGED <<call, mr, rsa_vars, aes_vars, gf, ser>>

PChoices == (0 - 1)..MaxP
RoundsChoices == 0..MaxRounds
RetriesChoices == 0..MaxRetries
PrimeLengthChoices == (0 - 1)..MaxPrimeLength

PrimeNext ==
  \/ \E p \in PChoices, rounds \in RoundsChoices :
       Call_miller_rabin(p, rounds)
  \/ miller_rabin_round
  \/ \E length \in PrimeLengthChoices, rounds \in RoundsChoices,
        retries \in RetriesChoices :
       Call_random_prime(length, rounds, retries)
  \/ random_prime_try
  \/ random_prime_tested
  \/ random_prime_exhausted

(***************************************************************************)
(* rsa.py: the actions.                                                    *)
(***************************************************************************)
\* RSAkey.generate(length, e, miller_rounds, max_retries) up to the first
\* call of random_prime; e = None is e_arg = <<>>, e = 3 is e_arg = <<3>>
Call_generate(length, e_arg, miller_rounds, max_retries) ==
  /\ call = "none"
  /\ call' = "generate"
  /\ gen' = [gen_idle EXCEPT !.pc = "p", !.length = length, !.e_arg = e_arg,
                             !.miller_rounds = miller_rounds,
                             !.max_retries = max_retries]
  /\ rp' = random_prime_enter(length \div 2, miller_rounds, max_retries)
  /\ UNCHANGED <<mr, rsa_key, enc, dec, aes_vars, gf, ser>>

\* random_prime asked for a prime one bit shorter
next_prime_short(g) ==
  random_prime_enter((g.length \div 2) - 1, g.miller_rounds, g.max_retries)

\* random_prime for the frame gen
next_prime(g) ==
  random_prime_enter(g.length \div 2, g.miller_rounds, g.max_retries)

\* d = pow(e, -1, phi); return RSAkey(n, e, d) -- the frame at the return
generate_return(g, e) ==
  [g EXCEPT !.pc = "done", !.e = e, !.miller_rounds = 0, !.max_retries = 0]

\* p = random_prime(...) returned
generate_p ==
  /\ gen.pc = "p"
  /\ rp.pc = "done"
  /\ gen' = [gen EXCEPT !.pc = "q", !.p = rp.ret]
  /\ rp' = next_prime(gen)
  /\ mr' = mr_idle
  /\ UNCHANGED <<call, rsa_key, enc, dec, aes_vars, gf, ser>>

\* generate drawing its first exponent candidate one bit shorter than p and q
generate_q_short_e ==
  /\ gen.pc = "q"
  /\ rp.pc = "done"
  /\ mr' = mr_idle
  /\ LET q   == rp.ret
         n   == gen.p * q
         phi == (gen.p - 1) * (q - 1)
         g   == [gen EXCEPT !.q = q, !.n = n, !.phi = phi]
     IN  IF q = gen.p
         THEN /\ gen' = [gen EXCEPT !.q = q]
              /\ rp' = next_prime(gen)
              /\ UNCHANGED rsa_key
         ELSE IF gen.e_arg = <<>>
         THEN /\ gen' = [g EXCEPT !.pc = "e"]
              /\ rp' = next_prime_short(gen)
              /\ UNCHANGED rsa_key
         ELSE IF gcd(gen.e_arg[1], phi) # 1
         THEN /\ gen' = [g EXCEPT !.pc = "raised", !.e = gen.e_arg[1],
                           !.err = "ValueError: e must be coprime with phi(n)"]
              /\ rp' = rp_idle
              /\ UNCHANGED rsa_key
         ELSE /\ gen' = generate_return(g, gen.e_arg[1])
              /\ rp' = rp_idle
              /\ rsa_key' = [kind |-> "RSAkey", n |-> n, e |-> gen.e_arg[1],
                         d |-> mod_inverse(gen.e_arg[1], phi)]
  /\ UNCHANGED <<call, enc, dec, aes_vars, gf, ser>>

\* q = random_prime(...) returned: the rest of the while loop, and the code
\* after it up to the next call of random_prime, the raise or the return
generate_q ==
  /\ gen.pc = "q"
  /\ rp.pc = "done"
  /\ mr' = mr_idle
  /\ LET q   == rp.ret
         n   == gen.p * q
         phi == (gen.p - 1) * (q - 1)
         g   == [gen EXCEPT !.q = q, !.n = n, !.phi = phi]
     IN  IF q = gen.p
         THEN /\ gen' = [gen EXCEPT !.q = q]
              /\ rp' = next_prime(gen)
              /\ UNCHANGED rsa_key
         ELSE IF gen.e_arg = <<>>
         THEN /\ gen' = [g EXCEPT !.pc = "e"]
              /\ rp' = next_prime(gen)
              /\ UNCHANGED rsa_key
         ELSE IF gcd(gen.e_arg[1], phi) # 1
         THEN /\ gen' = [g EXCEPT !.pc = "raised", !.e = gen.e_arg[1],
                           !.err = "ValueError: e must be coprime with phi(n)"]
              /\ rp' = rp_idle
              /\ UNCHANGED rsa_key
         ELSE /\ gen' = generate_return(g, gen.e_arg[1])
              /\ rp' = rp_idle
              /\ rsa_key' = [kind |-> "RSAkey", n |-> n, e |-> gen.e_arg[1],
                         d |-> mod_inverse(gen.e_arg[1], phi)]
  /\ UNCHANGED <<call, enc, dec, aes_vars, gf, ser>>

\* e = random_prime(...) returned: the while loop on gcd(e, phi), and the
\* return
generate_e ==
  /\ gen.pc = "e"
  /\ rp.pc = "done"
  /\ mr' = mr_idle
  /\ LET e == rp.ret
     IN  IF gcd(e, gen.phi) # 1
         THEN /\ gen' = [gen EXCEPT !.e = e]
              /\ rp' = next_prime(gen)
              /\ UNCHANGED rsa_key
         ELSE /\ gen' = generate_return(gen, e)
              /\ rp' = rp_idle
              /\ rsa_key' = [kind |-> "RSAkey", n |-> gen.n, e |-> e,
                         d |-> mod_inverse(e, gen.phi)]
  /\ UNCHANGED <<call, enc, dec, aes_vars, gf, ser>>

\* random_prime raised: generate lets the exception through
generate_raise ==
  /\ gen.pc \in {"p", "q", "e"}
  /\ rp.pc = "raised"
  /\ gen' = [gen EXCEPT !.pc = "raised", !.err = rp.err]
  /\ rp' = rp_idle
  /\ UNCHANGED <<call, mr, rsa_key, enc, dec, aes_vars, gf, ser>>

\* RSApubkey(n, e) from the numbers of the generated key
RSApubkey_init ==
  /\ rsa_key.kind = "RSAkey"
  /\ rsa_key' = [kind |-> "RSApubkey", n |-> rsa_key.n, e |-> rsa_key.e,
                 d |-> 0]
  /\ enc' = call_idle
  /\ dec' = call_idle
  /\ UNCHANGED <<gen, prime_vars, aes_vars, gf, ser>>

\* key._encrypt(m) or key.simple_int_encrypt(m)
rsa_encrypt(api, m) ==
  /\ rsa_key.kind # "none"
  /\ enc = call_idle
  /\ dec = call_idle
  /\ LET r == IF api = "_encrypt" THEN RSAkey_encrypt(rsa_key, m)
              ELSE simple_int_encrypt(rsa_key, m)
     IN  enc' = [api |-> api, arg |-> m, ret |-> r.ret, err |-> r.err]
  /\ UNCHANGED <<gen, rsa_key, dec, prime_vars, aes_vars, gf, ser>>

\* key._decrypt(c) or key.simple_int_decrypt(c)
rsa_decrypt(api, c) ==
  /\ rsa_key.kind # "none"
  /\ dec = call_idle
  /\ LET r == IF api = "_decrypt" THEN RSAkey_decrypt(rsa_key, c)
              ELSE simple_int_decrypt(rsa_key, c)
     IN  dec' = [api |-> api, arg |-> c, ret |-> r.ret, err |-> r.err]
  /\ UNCHANGED <<gen, rsa_key, enc, prime_vars, aes_vars, gf, ser>>

LengthChoices == (7..MaxSmallLength) \cup {BigLength}
EChoices == {<<>>, <<3>>, <<7>>}

\* the integers handed to the key as message or ciphertext
MsgChoices ==
  ((0 - 1)..MaxMsgOffset) \cup ((rsa_key.n - MaxMsgOffset)..(rsa_key.n + 1))

\* decrypt is handed the last ciphertext, when there is one, or a choice
CipherChoices == IF enc.ret # <<>> THEN {enc.ret[1]} ELSE MsgChoices

RSANext ==
  \/ \E length \in LengthChoices, e_arg \in EChoices,
        rounds \in RoundsChoices, retries \in RetriesChoices :
       Call_generate(length, e_arg, rounds, retries)
  \/ generate_p
  \/ generate_q
  \/ generate_e
  \/ generate_raise
  \/ random_prime_try
  \/ random_prime_tested
  \/ random_prime_exhausted
  \/ miller_rabin_round
  \/ RSApubkey_init
  \/ \E api \in {"_encrypt", "simple_int_encrypt"}, m \in MsgChoices :
       rsa_encrypt(api, m)
  \/ \E api \in {"_decrypt", "simple_int_decrypt"}, c \in CipherChoices :
       rsa_decrypt(api, c)

SpecAES == Init /\ [][AESNext]_vars
SpecPrime == Init /\ [][PrimeNext]_vars
SpecRSA == Init /\ [][RSANext]_vars

SpecGF == Init /\ [][GFNext]_vars

SpecSerial == Init /\ [][SerialNext]_vars

\* the interpreter always takes the next step of a call in progress
SpecPrimeFair == SpecPrime /\ WF_vars(PrimeNext)

SpecRSAFair == SpecRSA /\ WF_vars(RSANext)

(***************************************************************************)
(* The properties of aes.py, checked under SpecAES.                        *)
(***************************************************************************)
\* C1: for every key of 16, 24 or 32 bytes and every 16-byte block P,
\* decrypt(encrypt(P)) = P: whenever decrypt has returned on the result of
\* the last encryption, it returned the argument of that encryption.
C1_RoundTrip ==
  (/\ aes_op = "decrypt"
   /\ aes_pc = "ready"
   /\ aes_err = ""
   /\ aes_in = enc_cipher)
  => aes_out = enc_plain

\* decrypt has returned the plaintext of a 32-byte key's ciphertext
C1_Witness ==
  /\ aes_op = "decrypt"
  /\ aes_pc = "ready"
  /\ aes_err = ""
  /\ aes_in = enc_cipher
  /\ aes_key = Key256
  /\ enc_plain = BlockMixed
  /\ aes_out = BlockMixed

\* the 4-byte word of a schedule at byte offset o (counted from 0)
WordAt(schedule, o) == SubSeq(schedule, o + 1, o + 4)

\* the word the recurrence of the key schedule asks for at offset o, key
\* length L: the word L bytes earlier XORed with the previous word, that
\* one rotated, substituted and XORed with the round constant of index o/L
\* at a multiple of L, substituted only at offset 16 of a 32-byte period
WordExpected(schedule, o, L) ==
  LET prev == WordAt(schedule, o - 4)
      back == WordAt(schedule, o - L)
      rot  == <<prev[2], prev[3], prev[4], prev[1]>>
      t    == IF o % L = 0
              THEN <<Xor(SBOX[rot[1] + 1], RCON[(o \div L) + 1]),
                     SBOX[rot[2] + 1], SBOX[rot[3] + 1], SBOX[rot[4] + 1]>>
              ELSE IF L = 32 /\ o % L = 16
              THEN <<SBOX[prev[1] + 1], SBOX[prev[2] + 1], SBOX[prev[3] + 1],
                     SBOX[prev[4] + 1]>>
              ELSE prev
  IN  [k \in 1..4 |-> Xor(back[k], t[k])]

\* C2: for every key of L in {16, 24, 32} bytes expand_key returns
\* 176/208/240 bytes, the first L of them the key, every later word the
\* word L bytes earlier XORed with the (transformed) previous word, and
\* the keys 00..0f, 00..17 and 00..1f expand to the published vectors.
C2_KeySchedule ==
  key_schedule # <<>> =>
    LET L == Len(aes_key)
    IN  /\ L \in {16, 24, 32}
        /\ Len(key_schedule) = (IF L = 16 THEN 176
                                ELSE IF L = 24 THEN 208 ELSE 240)
        /\ SubSeq(key_schedule, 1, L) = aes_key
        /\ \A w \in (L \div 4)..((Len(key_schedule) \div 4) - 1) :
             WordAt(key_schedule, 4 * w) = WordExpected(key_schedule, 4 * w, L)
        /\ aes_key = [k \in 1..16 |-> k - 1] => key_schedule = TestVector128
        /\ aes_key = [k \in 1..24 |-> k - 1] => key_schedule = TestVector192
        /\ aes_key = [k \in 1..32 |-> k - 1] => key_schedule = TestVector256

\* the schedule of the 32-byte key 00..1f has been computed
C2_Witness ==
  /\ aes_key = [k \in 1..32 |-> k - 1]
  /\ Len(key_schedule) = 240
  /\ aes_pc = "ready"

(***************************************************************************)
(* The properties of prime.py and rand.py, checked under SpecPrime.        *)
(***************************************************************************)
\* n is a prime number, for n < (MaxRoot + 1)^2
IsPrime(n) == n > 1 /\ \A k \in 2..MaxRoot : k * k > n \/ n % k # 0

\* C8: miller_rabin never rejects a prime: whatever the number of rounds
\* and the bases drawn, a call on a prime p that has returned, returned
\* true.
C8_PrimeAccepted ==
  (mr.pc = "done" /\ IsPrime(mr.p)) => mr.ret = "True"

\* a prime beyond the table went through every round asked for
C8_Witness ==
  /\ mr.pc = "done"
  /\ IsPrime(mr.p)
  /\ mr.p > 97
  /\ mr.rounds = MaxRounds
  /\ mr.k = mr.rounds
  /\ mr.ret = "True"

\* the 25 primes of the table
TablePrimes ==
  {2, 3, 5, 7, 11, 13, 17, 19, 23, 29, 31, 37, 41, 43, 47, 53, 59, 61, 67, 71,
   73, 79, 83, 89, 97}

\* C9: miller_rabin decides the small cases without a round or a draw,
\* whatever rounds is: p < 2 gives false, a table prime gives true, any
\* other multiple of a table prime gives false.
C9_SmallCases ==
  LET small == \/ mr.p < 2
               \/ \E n \in TablePrimes : mr.p % n = 0
  IN  (mr.pc # "idle" /\ small) =>
        /\ mr.pc = "done"
        /\ mr.k = 0
        /\ mr.ret = IF mr.p \in TablePrimes THEN "True" ELSE "False"

\* miller_rabin(2, rounds) with rounds > 0 has returned
C9_Witness ==
  /\ mr.pc = "done"
  /\ mr.p = 2
  /\ mr.rounds > 0
  /\ mr.ret = "True"

\* C10: a value random_prime(length, rounds, max_retries) returns is odd,
\* lies in [2^(length-1)+1, 2^length-1], is 2*sample+1 for the sample drawn
\* from [2^(length-2), 2^(length-1)-1], and was accepted by miller_rabin
\* with the given rounds.
C10_RandomPrime ==
  rp.pc = "done" =>
    /\ rp.length >= 4
    /\ rp.ret % 2 = 1
    /\ 2 ^ (rp.length - 1) + 1 <= rp.ret
    /\ rp.ret <= 2 ^ rp.length - 1
    /\ rp.ret = 2 * rp.sample + 1
    /\ 2 ^ (rp.length - 2) <= rp.sample
    /\ rp.sample <= 2 ^ (rp.length - 1) - 1
    /\ mr.pc = "done"
    /\ mr.p = rp.ret
    /\ mr.rounds = rp.miller_rounds
    /\ mr.ret = "True"

\* random_prime returned on its second try, after rounds of miller_rabin
C10_Witness ==
  /\ rp.pc = "done"
  /\ rp.try_ = 1
  /\ rp.ret > 97
  /\ mr.k > 0

(***************************************************************************)
(* The properties of rsa.py, checked under SpecRSA.                        *)
(***************************************************************************)
\* a private key was generated, m with 0 < m < n was encrypted, and the
\* ciphertext was decrypted
RoundTripDone ==
  /\ rsa_key.kind = "RSAkey"
  /\ enc.api # ""
  /\ 0 < enc.arg
  /\ enc.arg < rsa_key.n
  /\ dec.api # ""
  /\ dec.arg = enc.ret[1]

\* C3 as stated: for every key pair generate returns and every m with
\* 0 < m < n, decrypting the encryption of m gives m.
C3_AsStated == RoundTripDone => dec.ret = <<enc.arg>>

\* C3, for the keys whose p and q are prime: for every key pair generate
\* returns from two primes and every m with 0 < m < n, decrypting the
\* encryption of m gives m.
C3_RoundTripOfPrimes ==
  (RoundTripDone /\ IsPrime(gen.p) /\ IsPrime(gen.q)) =>
    dec.ret = <<enc.arg>>

\* the round trip of m = 2 under a key of two 15-bit primes
C3_Witness ==
  /\ RoundTripDone
  /\ IsPrime(gen.p)
  /\ IsPrime(gen.q)
  /\ gen.length = BigLength
  /\ enc.arg = 2
  /\ dec.ret = <<2>>

\* C4 as stated: encryption of m returns m^e mod n only when 0 < m < n;
\* for every other m, m = n and m <= 0 included, it fails with the
\* invalid-argument error and returns nothing.
C4_AsStated ==
  enc.api # "" =>
    IF 0 < enc.arg /\ enc.arg < rsa_key.n
    THEN /\ enc.ret = <<pow_mod(enc.arg, rsa_key.e, rsa_key.n)>>
         /\ enc.err = ""
    ELSE /\ enc.ret = <<>>
         /\ enc.err = "ValueError: Message too large for encryption."

\* the encryption of m = n has returned 0
C4_Witness ==
  /\ enc.api = "_encrypt"
  /\ enc.arg = rsa_key.n
  /\ enc.ret = <<0>>
  /\ enc.err = ""

\* the greatest common divisor of a and b, for a, b >= 0
RECURSIVE Gcd(_, _)
Gcd(a, b) == IF b = 0 THEN a ELSE Gcd(b, a % b)

\* p has exactly h bits and is odd
OddOfBits(p, h) == p % 2 = 1 /\ 2 ^ (h - 1) < p /\ p < 2 ^ h

\* C5: a key pair generate returns, e supplied or not, has n = p*q for two
\* distinct odd p, q that random_prime gave, gcd(e, (p-1)(q-1)) = 1 and
\* e*d mod (p-1)(q-1) = 1; with a supplied e not coprime with phi, generate
\* raises the invalid-argument error and returns no key.
C5_GenerateInvariant ==
  LET phi == (gen.p - 1) * (gen.q - 1)
  IN  /\ gen.pc = "done" =>
           /\ rsa_key.kind \in {"RSAkey", "RSApubkey"}
           /\ rsa_key.n = gen.p * gen.q
           /\ gen.p # gen.q
           /\ OddOfBits(gen.p, gen.length \div 2)
           /\ OddOfBits(gen.q, gen.length \div 2)
           /\ rsa_key.e = gen.e
           /\ gen.e_arg # <<>> => gen.e = gen.e_arg[1]
           /\ Gcd(rsa_key.e, phi) = 1
           /\ rsa_key.kind = "RSAkey" =>
                /\ 0 < rsa_key.d
                /\ rsa_key.d < phi
                /\ mul_mod(rsa_key.e % phi, rsa_key.d, phi) = 1
      /\ (gen.e_arg # <<>> /\ gen.n # 0 /\ Gcd(gen.e_arg[1], phi) # 1) =>
           /\ gen.pc = "raised"
           /\ gen.err = "ValueError: e must be coprime with phi(n)"
           /\ rsa_key.kind = "none"

\* generate returned a key of two 15-bit numbers with an e it drew itself
C5_Witness ==
  /\ gen.pc = "done"
  /\ gen.length = BigLength
  /\ gen.e_arg = <<>>
  /\ rsa_key.kind = "RSAkey"
  /\ rsa_key.d > 1

\* the number of bits of n >= 0
RECURSIVE BitLength(_)
BitLength(n) == IF n = 0 THEN 0 ELSE 1 + BitLength(n \div 2)

\* C6: when generate(length) with length >= 8 returns, n has
\* 2*floor(length/2) bits or one less: never more than length, and at most
\* 2 less.
C6_ModulusLength ==
  (gen.pc = "done" /\ gen.length >= 8) =>
    /\ BitLength(rsa_key.n) \in
         {2 * (gen.length \div 2), 2 * (gen.length \div 2) - 1}
    /\ BitLength(rsa_key.n) <= gen.length
    /\ BitLength(rsa_key.n) >= gen.length - 2

\* generate(11) returned a modulus of 9 bits: two bits short of the length
C6_Witness ==
  /\ gen.pc = "done"
  /\ gen.length = 11
  /\ BitLength(rsa_key.n) = 9

\* C7: on an RSApubkey, _decrypt and simple_int_decrypt of any c fail with
\* the unsupported-operation error and return nothing, while encryption
\* still returns m^e mod n.
C7_PublicKey ==
  rsa_key.kind = "RSApubkey" =>
    /\ rsa_key.d = 0
    /\ dec.api # "" =>
         /\ dec.ret = <<>>
         /\ dec.err = "SyntaxError: Cannot decrypt with a public key."
    /\ (enc.api # "" /\ 0 < enc.arg /\ enc.arg < rsa_key.n) =>
         /\ enc.ret = <<pow_mod(enc.arg, rsa_key.e, rsa_key.n)>>
         /\ enc.err = ""

\* a public key encrypted m = 2 and refused to decrypt the ciphertext
C7_Witness ==
  /\ rsa_key.kind = "RSApubkey"
  /\ enc.arg = 2
  /\ enc.ret # <<>>
  /\ dec.api = "simple_int_decrypt"
  /\ dec.arg = enc.ret[1]
  /\ dec.err = "SyntaxError: Cannot decrypt with a public key."


(***************************************************************************)
(* random_prime: the retry budget and the length check.                    *)
(***************************************************************************)
RetryLimitError ==
  "ValueError: Could not find a random prime within the retry limit."

\* rp.try_ counts the candidates that failed the test
RetryBudgetKept ==
  (rp.pc # "idle" /\ rp.length >= 4) =>
    /\ rp.try_ <= rp.max_retries
    /\ rp.pc = "test" => rp.try_ < rp.max_retries
    /\ rp.pc = "done" =>
         /\ rp.try_ < rp.max_retries
         /\ rp.ret = rp.p
         /\ mr.p = rp.p /\ mr.ret = "True"
    /\ rp.pc = "raised" =>
         /\ rp.try_ = rp.max_retries
         /\ rp.err = RetryLimitError
    /\ rp.max_retries = 0 => rp.sample = 0 /\ rp.pc # "done"

\* C11: random_prime always terminates: a call that reached its loop
\* returns or raises, and it tests at most max_retries candidates.  It
\* returns the first candidate that passes the test; it raises the
\* retry-limit error exactly when max_retries candidates failed, also when
\* max_retries is 0 and none was tested; no candidate is tested after
\* max_retries failures.
C11_RandomPrimeBounded ==
  /\ []RetryBudgetKept
  /\ (rp.pc = "loop") ~> (rp.pc \in {"done", "raised"})

C11_Witness ==
  /\ rp.pc = "raised"
  /\ rp.length >= 4
  /\ rp.max_retries = MaxRetries
  /\ rp.try_ = MaxRetries
  /\ rp.sample # 0
  /\ rp.err = RetryLimitError

\* C12: random_prime called with a length below 4 raises the
\* invalid-argument error before it samples or tests a candidate, whatever
\* miller_rounds and max_retries are.
C12_ShortLengthRejected ==
  (rp.pc # "idle" /\ rp.length < 4) =>
    /\ rp.pc = "raised"
    /\ rp.err = "ValueError: Length must be at least 4."
    /\ rp.sample = 0 /\ rp.p = 0 /\ rp.try_ = 0
    /\ call = "random_prime" => mr = mr_idle

C12_Witness ==
  /\ call = "random_prime"
  /\ rp.pc = "raised"
  /\ rp.length = 3
  /\ rp.miller_rounds = MaxRounds
  /\ rp.max_retries = MaxRetries

(***************************************************************************)
(* rsa.py: the conversions of key objects.                                 *)
(***************************************************************************)
\* C13: for every RSAkey (n, e, d) and every RSApubkey (n, e) with
\* non-negative fields -- fields equal to 0 and fields whose bytes hold
\* 0x00, 0x00 0x01 or 0x00 0xFF included -- from_bytes(to_bytes(x)) returns
\* an object of the same class that equals x; the bytes split at the
\* delimiter 0x00 0xFF into exactly the fields written.
C13_BytesRoundTrip ==
  /\ ser.pc \in {"to_bytes", "from_bytes"} =>
       Len(split(ser.bytes, <<0, 255>>)) =
         (IF ser.obj.kind = "RSApubkey" THEN 2 ELSE 3)
  /\ ser.pc = "from_bytes" =>
       /\ ser.err = ""
       /\ Len(ser.back) = 1
       /\ ser.back[1].kind = ser.obj.kind
       /\ key_eq(ser.back[1], ser.obj)
       /\ key_eq(ser.obj, ser.back[1])

C13_Witness ==
  /\ ser.pc = "from_bytes"
  /\ ser.obj = RSAkey_new(65791, 0, 65537)
  /\ ser.bytes = <<1, 0, 1, 255, 0, 255, 0, 255, 1, 0, 1, 1>>
  /\ ser.back = <<ser.obj>>

\* C20: from_list(to_list(k)) equals k, for RSAkey and for RSApubkey:
\* to_list writes the fields in the order from_list reads them.
C20_AsStated ==
  ser.pc = "from_list" =>
    /\ ser.err = ""
    /\ Len(ser.back) = 1
    /\ key_eq(ser.back[1], ser.obj)

\* to_list writes e, d, n and from_list reads n, e, d
C20_Witness ==
  /\ ser.pc = "from_list"
  /\ ser.obj = RSAkey_new(257, 1, 255)
  /\ ser.list = <<1, 255, 257>>
  /\ ser.back = <<RSAkey_new(1, 255, 257)>>

(***************************************************************************)
(* AES: arguments of the wrong length.                                     *)
(***************************************************************************)
\* what a call that was handed a wrong length leaves behind
WrongLengthRejected ==
  /\ aes_err = "ValueError: Key must be 16, 24, or 32 bytes long." =>
       /\ aes_pc = "none" /\ aes_op = "none"
       /\ aes_key = <<>> /\ key_schedule = <<>>
  /\ aes_pc # "none" => Len(aes_key) \in {16, 24, 32}
  /\ (aes_op = "encrypt" /\ Len(aes_in) # 16) =>
       /\ aes_err = "ValueError: Plaintext must be 16 bytes long."
       /\ aes_pc = "ready" /\ aes_out = <<>> /\ aes_raised
  /\ (aes_op = "decrypt" /\ Len(aes_in) # 16) =>
       /\ aes_err = "ValueError: Ciphertext must be 16 bytes long."
       /\ aes_pc = "ready" /\ aes_out = <<>> /\ aes_raised
  /\ (aes_op # "none" /\ Len(aes_in) = 16) => aes_err = ""

\* what a step may change: a call that raises changes nothing of the
\* engine, the key and the key schedule never change once built, and a
\* plaintext encrypted before gives the ciphertext it gave before
NoPartialEffect ==
  /\ key_schedule # <<>> =>
       aes_key' = aes_key /\ key_schedule' = key_schedule
  /\ aes_err' # "" =>
       UNCHANGED <<aes_key, key_schedule, aes_pc, state, round_,
                   expanded_key, rcon_i, enc_plain, enc_cipher>>
  /\ (aes_pc = "encrypt" /\ aes_pc' = "ready" /\ aes_in = enc_plain) =>
       aes_out' = enc_cipher
  /\ (aes_pc = "decrypt" /\ aes_pc' = "ready" /\ aes_in = enc_cipher) =>
       aes_out' = enc_plain

\* C14: AES rejects arguments of the wrong length with an invalid-argument
\* error and without partial effect: a key that is not 16, 24 or 32 bytes
\* long creates no engine; encrypt and decrypt of an input that is not 16
\* bytes long return no output and leave key and key schedule unchanged,
\* and later valid calls give the results they gave before.
C14_WrongLength == []WrongLengthRejected /\ [][NoPartialEffect]_vars

\* a call has raised, and a later encrypt of a 16-byte block returned
\* under the unchanged key schedule
C14_Witness ==
  /\ aes_raised
  /\ key_schedule = TestVector128
  /\ aes_op = "encrypt" /\ aes_pc = "ready" /\ aes_err = ""
  /\ aes_in = BlockRamp
  /\ aes_out = enc_cipher

(***************************************************************************)
(* AES: the layout of the state.                                           *)
(***************************************************************************)
\* ShiftRows on a block held column-major: byte r + 4c comes from column
\* c + r of row r (block indices from 0)
ColumnMajorShiftRows(block) ==
  [k \in 1..16 |->
     LET r == (k - 1) % 4
         c == (k - 1) \div 4
     IN  block[r + 4 * ((c + r) % 4) + 1]]

\* MixColumns on a block held column-major: the bytes 4c..4c+3 are mixed
ColumnMajorMixColumns(block) ==
  [k \in 1..16 |->
     LET r == (k - 1) % 4
         c == (k - 1) \div 4
         col == [x \in 0..3 |-> block[4 * c + ((r + x) % 4) + 1]]
     IN  Xor(Xor(gmul(col[0], 2), gmul(col[1], 3)), Xor(col[2], col[3]))]

\* C15: encrypt and decrypt hold the block column-major, byte i in row
\* i % 4 and column i / 4: ShiftRows rotates by r the bytes at the block
\* indices r, r+4, r+8, r+12, and MixColumns mixes the four bytes at the
\* block indices 4c..4c+3, the output being read back in the same layout.
C15_AsStated ==
  aes_pc = "encrypt" =>
    /\ store_state(shift_rows(state)) =
         ColumnMajorShiftRows(store_state(state))
    /\ store_state(mix_columns(state)) =
         ColumnMajorMixColumns(store_state(state))

\* the key 00 01 .. 0f and the plaintext 00 11 .. ff of FIPS-197 C.1,
\* whose AES-128 ciphertext is 69 c4 e0 d8 6a 7b 04 30 d8 cd b7 80 70 b4
\* c5 5a: encrypt returns another block
C15_Witness ==
  /\ aes_key = [i \in 1..16 |-> i - 1]
  /\ enc_plain = [i \in 1..16 |-> 17 * (i - 1)]
  /\ enc_cipher =
       <<225, 210, 39, 171, 104, 141, 97, 187,
         180, 76, 236, 98, 87, 169, 99, 43>>

(***************************************************************************)
(* AES: the order of the transformations of encrypt.                       *)
(***************************************************************************)
\* N: 10, 12 or 14 rounds for a key of 16, 24 or 32 bytes
RoundCount == Len(aes_key) \div 4 + 6

\* round key r, r = 0..N: the bytes 16r..16r+15 of the key schedule
RoundKeyAt(r) == load_state(SubSeq(key_schedule, 16 * r + 1, 16 * r + 16))

\* a state written out as tuples, so that each round is computed once
AsTuples(st) ==
  <<<<st[1][1], st[1][2], st[1][3], st[1][4]>>,
    <<st[2][1], st[2][2], st[2][3], st[2][4]>>,
    <<st[3][1], st[3][2], st[3][3], st[3][4]>>,
    <<st[4][1], st[4][2], st[4][3], st[4][4]>>>>

\* the state after AddRoundKey(0) and r rounds of SubBytes, ShiftRows,
\* MixColumns, AddRoundKey(round key of the round)
RECURSIVE StateAfterRound(_)
StateAfterRound(r) ==
  IF r = 0
  THEN AsTuples(add_round_key(load_state(aes_in), RoundKeyAt(0)))
  ELSE CHOOSE st \in
         {AsTuples(add_round_key(mix_columns(shift_rows(sub_bytes(before))),
                                 RoundKeyAt(r))) :
            before \in {StateAfterRound(r - 1)}} : TRUE

\* the block after the final round: SubBytes, ShiftRows, AddRoundKey(N)
FinalRound(before) ==
  store_state(add_round_key(shift_rows(sub_bytes(before)),
                            RoundKeyAt(RoundCount)))

\* C16: with N rounds for the key length (10, 12 or 14), encrypt applies
\* AddRoundKey with round key 0, then for r = 1..N-1 SubBytes, ShiftRows,
\* MixColumns, AddRoundKey with round key r, then SubBytes, ShiftRows and
\* AddRoundKey with round key N: each of the N+1 round keys once, in
\* ascending order, and MixColumns N-1 times, not in the final round.
C16_RoundOrder ==
  /\ key_schedule # <<>> => Len(key_schedule) = 16 * (RoundCount + 1)
  /\ aes_pc = "encrypt" =>
       /\ round_ \in 1..RoundCount
       /\ state = StateAfterRound(round_ - 1)
  /\ (aes_op = "encrypt" /\ aes_pc = "ready" /\ aes_err = "") =>
       aes_out = FinalRound(StateAfterRound(RoundCount - 1))

C16_Witness ==
  /\ Len(aes_key) = 32
  /\ aes_op = "encrypt" /\ aes_pc = "ready" /\ aes_err = ""
  /\ aes_in = BlockMixed
  /\ aes_out = FinalRound(StateAfterRound(13))

(***************************************************************************)
(* miller_rabin: the bases.                                                *)
(***************************************************************************)
\* C17: in every round of miller_rabin the base a that is drawn satisfies
\* 2 <= a <= p - 1; the base 1, which passes the round for every p, is
\* never drawn.
C17_AsStated ==
  mr.pc = "loop" => \A a \in random_base(mr.p) : 2 <= a /\ a <= mr.p - 1

\* a composite p is under test, 1 is among the bases the round may draw,
\* and the round passes with it
C17_Witness ==
  /\ mr.pc = "loop"
  /\ ~IsPrime(mr.p)
  /\ 1 \in random_base(mr.p)
  /\ ~round_fails(1, mr.d, mr.s, mr.p)

(***************************************************************************)
(* RSAkey.generate: termination.                                           *)
(***************************************************************************)
\* C18: every retry loop of RSAkey.generate is bounded by max_retries:
\* whatever the random draws are, a call of generate returns or raises
\* after a bounded number of candidate samples; the loop that draws q again
\* while q = p cannot run without bound.
C18_AsStated == (gen.pc = "p") ~> (gen.pc \in {"done", "raised"})

\* random_prime returned a q equal to p: the while loop calls it again,
\* counting nothing
C18_Witness ==
  /\ gen.pc = "q"
  /\ gen.q = gen.p /\ gen.q # 0
  /\ rp.pc = "loop" /\ rp.try_ = 0

(***************************************************************************)
(* gmul: multiplication in GF(2^8).                                        *)
(***************************************************************************)
\* the product of the polynomials a and b over GF(2)
RECURSIVE CarrylessProduct(_, _)
CarrylessProduct(a, b) ==
  IF b = 0 THEN 0
  ELSE Xor(IF b % 2 = 1 THEN a ELSE 0, 2 * CarrylessProduct(a, b \div 2))

\* v modulo x^8 + x^4 + x^3 + x + 1 (283), v of degree at most deg
RECURSIVE ReduceFrom(_, _)
ReduceFrom(v, deg) ==
  IF deg < 8 THEN v
  ELSE CHOOSE r \in
         {ReduceFrom(w, deg - 1) :
            w \in {IF (v \div (2 ^ deg)) % 2 = 1
                   THEN Xor(v, 283 * (2 ^ (deg - 8)))
                   ELSE v}} : TRUE

GFProduct(a, b) == ReduceFrom(CarrylessProduct(a, b), 14)

\* C19: for all bytes a and b, gmul(a, b) is the product of a and b in
\* GF(2^8) modulo x^8 + x^4 + x^3 + x + 1 and lies in 0..255, although the
\* loop never masks a; and inv_mix_columns(mix_columns(S)) = S for every
\* state S.
C19_GaloisField ==
  /\ gf.op = "gmul" =>
       /\ gf.p \in 0..255
       /\ gf.p = GFProduct(gf.a, gf.b)
  /\ gf.op = "inv_mix_columns" => gf.unmixed = gf.st

\* {ff} * {ff} = {13}: the shifted a has grown past a byte
C19_Witness ==
  /\ gf.op = "gmul"
  /\ gf.a = 255 /\ gf.b = 255
  /\ gf.p = 19
  /\ gmul_loop(0, 255, 255, 8) > 255

(***************************************************************************)
(* RSAkey.generate: the exponent it draws.                                 *)
(***************************************************************************)
\* p, q and the exponent candidate e are prime
AllPrime(p, q, e) == IsPrime(p) /\ IsPrime(q) /\ IsPrime(e)

\* the first exponent candidate has been drawn: sizes and coprimality
FirstExponentDrawn ==
  (gen.pc = "e" /\ rp.pc = "done" /\ gen.e = 0) =>
    /\ gen.e_arg = <<>>
    /\ gen.phi = (gen.p - 1) * (gen.q - 1)
    /\ BitLength(gen.p) = gen.length \div 2
    /\ BitLength(gen.q) = gen.length \div 2
    /\ BitLength(rp.ret) = gen.length \div 2
    /\ AllPrime(gen.p, gen.q, rp.ret) => Gcd(rp.ret, gen.phi) = 1

\* the step after the first candidate, when the three are prime: generate
\* returns the key with that candidate as e, without drawing another
FirstExponentTaken ==
  (gen.pc = "e" /\ rp.pc = "done" /\ gen.e = 0
     /\ AllPrime(gen.p, gen.q, rp.ret)) =>
    /\ gen'.pc = "done"
    /\ gen'.e = rp.ret
    /\ rsa_key'.kind = "RSAkey" /\ rsa_key'.e = rp.ret
    /\ rp'.pc = "idle"

\* C21: in generate with e omitted, whenever p, q and the first exponent
\* candidate are primes of floor(length/2) bits, the candidate is coprime
\* with (p-1)(q-1), also when it equals p or q: the loop that draws e again
\* while gcd(e, phi) # 1 does not run its body, and exactly one exponent
\* candidate is drawn.
C21_FirstExponentCoprime ==
  []FirstExponentDrawn /\ [][FirstExponentTaken]_vars

\* the first candidate, a prime equal to p, was taken as the exponent
C21_Witness ==
  /\ gen.pc = "done"
  /\ gen.e_arg = <<>>
  /\ AllPrime(gen.p, gen.q, gen.e)
  /\ gen.e = gen.p
  /\ rsa_key.e = gen.e
  /\ Gcd(gen.e, gen.phi) = 1
====
